---- MODULE Spec2Model ----
(***************************************************************************)
(* dynamoclasses: a decorator that turns a dataclass into a record type    *)
(* bound to one DynamoDB table, with save / get / query and the            *)
(* marshalling between record instances and tagged wire items.             *)
(*                                                                         *)
(* Python values are pairs <<type, literal>>: the runtime type's name and  *)
(* the value's repr() text.  Wire attributes are pairs <<tag, payload>>,   *)
(* the single-entry mapping {tag: payload}.  Wire items and record         *)
(* instances are functions from field names.                               *)
(***************************************************************************)
EXTENDS Naturals, Sequences, FiniteSets, TLC

VARIABLES params, store, call, response, result, lastSaved

vars == <<params, store, call, response, result, lastSaved>>

\* the most items the storage service holds in a run
MaxItems == 2

(***************************************************************************)
(* Python values and the built-in constructors the code applies to them.   *)
(***************************************************************************)
Raise(e) == <<"raise", e>>

IsRaise(v) == v[1] = "raise"

PyNone == <<"NoneType", "None">>

IntLits == {"0", "1", "5", "7"}

FloatLits == {"0.0", "1.0", "1.5", "5.0", "7.0", "nan"}

\* literal of float(n) for an int literal n
IntToFloatLit(s) ==
    CASE s = "0" -> "0.0"
      [] s = "1" -> "1.0"
      [] s = "5" -> "5.0"
      [] s = "7" -> "7.0"

\* int(x) of a finite float literal truncates towards zero
FloatToIntLit(s) ==
    CASE s = "0.0" -> "0"
      [] s = "1.0" -> "1"
      [] s = "1.5" -> "1"
      [] s = "5.0" -> "5"
      [] s = "7.0" -> "7"

\* str(x): the text of x; a str is returned as it is
PyStr(v) == <<"str", v[2]>>

PyInt(v) ==
    CASE v[1] = "int" -> v
      [] v[1] = "bool" -> <<"int", IF v[2] = "True" THEN "1" ELSE "0">>
      [] v[1] = "float" ->
           IF v[2] = "nan" THEN Raise("ValueError") ELSE <<"int", FloatToIntLit(v[2])>>
      [] v[1] = "str" ->
           IF v[2] \in IntLits THEN <<"int", v[2]>> ELSE Raise("ValueError")
      [] v[1] = "bytes" -> Raise("ValueError")
      [] OTHER -> Raise("TypeError")

PyFloat(v) ==
    CASE v[1] = "float" -> v
      [] v[1] = "int" -> <<"float", IntToFloatLit(v[2])>>
      [] v[1] = "bool" -> <<"float", IF v[2] = "True" THEN "1.0" ELSE "0.0">>
      [] v[1] = "str" ->
           IF v[2] \in FloatLits THEN <<"float", v[2]>>
           ELSE IF v[2] \in IntLits THEN <<"float", IntToFloatLit(v[2])>>
           ELSE Raise("ValueError")
      [] v[1] = "bytes" -> Raise("ValueError")
      [] OTHER -> Raise("TypeError")

\* the literals whose truth value is False
Falsy == {<<"str", "">>, <<"int", "0">>, <<"float", "0.0">>, <<"bool", "False">>,
          PyNone, <<"bytes", "b''">>, <<"dict", "{}">>, <<"list", "[]">>}

PyBool(v) == <<"bool", IF v \in Falsy THEN "False" ELSE "True">>

\* bytes(n) of an int n is n zero bytes
ZeroBytesLit(s) ==
    CASE s = "0" -> "b''"
      [] s = "1" -> "b'\\x00'"
      [] s = "5" -> "b'\\x00\\x00\\x00\\x00\\x00'"
      [] s = "7" -> "b'\\x00\\x00\\x00\\x00\\x00\\x00\\x00'"

PyBytes(v) ==
    CASE v[1] = "bytes" -> v
      [] v[1] = "int" -> <<"bytes", ZeroBytesLit(v[2])>>
      [] v[1] = "bool" -> <<"bytes", IF v[2] = "True" THEN "b'\\x00'" ELSE "b''">>
      [] v = <<"dict", "{}">> -> <<"bytes", "b''">>
      [] v = <<"list", "[]">> -> <<"bytes", "b''">>
      [] OTHER -> Raise("TypeError")

PyDict(v) ==
    CASE v[1] = "dict" -> v
      [] v \in {<<"str", "">>, <<"bytes", "b''">>, <<"list", "[]">>} -> <<"dict", "{}">>
      [] v[1] = "str" -> Raise("ValueError")
      [] OTHER -> Raise("TypeError")

\* json.loads(x): x must be text (str or bytes) holding a JSON document
JsonLoads(v) ==
    CASE v[1] = "str" ->
           IF v[2] = "{}" THEN <<"dict", "{}">>
           ELSE IF v[2] = "[]" THEN <<"list", "[]">>
           ELSE IF v[2] \in IntLits THEN <<"int", v[2]>>
           ELSE IF v[2] \in FloatLits \ {"nan"} THEN <<"float", v[2]>>
           ELSE Raise("ValueError")
      [] v[1] = "bytes" -> Raise("ValueError")
      [] OTHER -> Raise("TypeError")

\* field_type(value): the declared type called as a constructor
Construct(type, v) ==
    CASE type = "str" -> PyStr(v)
      [] type = "int" -> PyInt(v)
      [] type = "float" -> PyFloat(v)
      [] type = "bool" -> PyBool(v)
      [] type = "bytes" -> PyBytes(v)
      [] type = "dict" -> PyDict(v)
      [] type = "None" -> Raise("TypeError")

\* the number a numeric value stands for, as a float literal
NumOf(v) == PyFloat(v)[2]

\* x == y on Python values; bool, int and float compare as numbers and a
\* nan built by float() equals nothing
PyEq(a, b) ==
    IF a[1] \in {"int", "float", "bool"} /\ b[1] \in {"int", "float", "bool"}
    THEN NumOf(a) = NumOf(b) /\ NumOf(a) # "nan"
    ELSE a = b

(***************************************************************************)
(* TYPE_MAPPING, keyed by Python type objects.  The last key is the value  *)
(* None itself (a field annotated None), not the type of None, so no       *)
(* runtime value has it as its type().                                     *)
(***************************************************************************)
MappedTypes == {"str", "float", "int", "bytes", "dict", "bool", "None"}

MappingKey(type) ==
    CASE type = "str" -> "S"
      [] type = "float" -> "N"
      [] type = "int" -> "N"
      [] type = "bytes" -> "B"
      [] type = "dict" -> "M"
      [] type = "bool" -> "BOOL"
      [] type = "None" -> "NULL"

MappingFn(type, v) == IF type \in {"str", "float", "int", "bytes"} THEN PyStr(v) ELSE v

(***************************************************************************)
(* The decorated classes of the program under analysis: their fields in    *)
(* declaration order, the declared types, and the decorator arguments the  *)
(* program may pass.  None as a name or value is the string "None".        *)
(***************************************************************************)
None == "None"

Classes == {"User", "Order", "OrderRef", "Doc", "Memo"}

\* the classes whose tables the store specification exercises
ServiceClasses == {"User", "Order", "OrderRef"}

Fields(c) ==
    CASE c = "User" -> <<"id", "name">>
      [] c = "Order" -> <<"customer", "ts", "amount">>
      [] c = "OrderRef" -> <<"customer", "ts">>
      [] c = "Doc" -> <<"id", "n", "x", "on">>
      [] c = "Memo" -> <<"id", "note">>

FieldType(c, f) ==
    CASE c = "User" -> "str"
      [] c = "Order" -> (CASE f = "customer" -> "str" [] f = "ts" -> "int" [] f = "amount" -> "float")
      [] c = "OrderRef" -> (CASE f = "customer" -> "str" [] f = "ts" -> "int")
      [] c = "Doc" ->
           (CASE f = "id" -> "str" [] f = "n" -> "int" [] f = "x" -> "float" [] f = "on" -> "bool")
      [] c = "Memo" -> (CASE f = "id" -> "str" [] f = "note" -> "None")

FieldSet(c) == {Fields(c)[i] : i \in 1..Len(Fields(c))}

\* <<table_name, partition_key_name, sort_key_name>> the decorator may get
Declarations(c) ==
    CASE c = "User" ->
           {<<"users", "id", None>>, <<"users", "id", "id">>,
            <<"users", "email", None>>, <<"users", None, None>>}
      [] c = "Order" ->
           {<<"orders", "customer", "ts">>, <<"ledger", "ts", None>>,
            <<"orders", "customer", "when">>}
      [] c = "OrderRef" ->
           {<<"orders", "customer", "ts">>}
      [] c = "Doc" ->
           {<<"docs", "id", None>>}
      [] c = "Memo" ->
           {<<"docs", "id", None>>}

NoParams == [table_name |-> "", partition_key_name |-> "", sort_key_name |-> ""]

Registered(c) == params[c] # NoParams

(***************************************************************************)
(* Results of an operation: a value, or the exception it raised.           *)
(***************************************************************************)
Ok(x) == [ok |-> TRUE, val |-> x, err |-> ""]

Err(e) == [ok |-> FALSE, val |-> <<>>, err |-> e]

NoSuchField == "ValueError: No such field name found"

(***************************************************************************)
(* The values the program builds records from and passes as key arguments: *)
(* values of the declared type, and some of another type (a dataclass does *)
(* not enforce its annotations).                                           *)
(***************************************************************************)
FieldValues(c, f) ==
    CASE c = "User" /\ f = "id" -> {<<"str", "u1">>, <<"int", "5">>}
      [] c = "User" /\ f = "name" -> {<<"str", "Ann">>, <<"str", "Bob">>, PyNone}
      [] c = "Order" /\ f = "customer" -> {<<"str", "c1">>}
      [] c = "Order" /\ f = "ts" -> {<<"int", "5">>, <<"int", "7">>, <<"dict", "{}">>}
      [] c = "Order" /\ f = "amount" -> {<<"float", "1.5">>, <<"float", "nan">>}
      [] c = "OrderRef" /\ f = "customer" -> {<<"str", "c1">>}
      [] c = "OrderRef" /\ f = "ts" -> {<<"int", "5">>}
      [] c = "Doc" /\ f = "id" -> {<<"str", "u1">>, <<"str", "">>, <<"int", "5">>}
      [] c = "Doc" /\ f = "n" -> {<<"int", "0">>, <<"int", "5">>, <<"bool", "True">>}
      [] c = "Doc" /\ f = "x" -> {<<"float", "1.5">>, <<"float", "5.0">>, <<"float", "nan">>}
      [] c = "Doc" /\ f = "on" -> {<<"bool", "True">>, <<"bool", "False">>}
      [] c = "Memo" /\ f = "id" -> {<<"str", "u1">>}
      [] c = "Memo" /\ f = "note" -> {PyNone, <<"str", "x">>}

Instances(c) == {r \in [FieldSet(c) -> UNION {FieldValues(c, f) : f \in FieldSet(c)}] :
                   \A f \in FieldSet(c) : r[f] \in FieldValues(c, f)}

\* a keyword argument the caller left out
Omitted == <<"omitted", "">>

PartitionArgs(c) ==
    IF c = "User" THEN {<<"str", "u1">>, <<"int", "5">>}
    ELSE {<<"str", "c1">>, <<"float", "5.0">>}

SortArgs(c) ==
    IF c = "User" THEN {Omitted, PyNone, <<"str", "zz">>}
    ELSE {Omitted, <<"int", "5">>, <<"int", "7">>, <<"str", "x">>}

IndexArgs == {None, "by_name"}

\* a field name handed to _dataclass_field_to_dynamo_field directly
FieldNameArgs(c) == {Fields(c)[1], "zzz"}

FieldValueArgs(c) == {<<"str", "c1">>}

(***************************************************************************)
(* Marshalling.                                                            *)
(***************************************************************************)
\* one entry of _to_dynamo's comprehension: TYPE_MAPPING[type(v)]
ToDynamoEntry(v) ==
    IF v[1] \notin MappedTypes THEN Raise("KeyError")
    ELSE <<MappingKey(v[1]), MappingFn(v[1], v)>>

to_dynamo(c, r) ==
    IF \E f \in DOMAIN r : IsRaise(ToDynamoEntry(r[f])) THEN Err("KeyError")
    ELSE Ok([f \in DOMAIN r |-> ToDynamoEntry(r[f])])

\* one turn of _to_dataclass's loop, for the key field_name of the item
ToDataclassEntry(c, field_name, value) ==
    IF field_name \notin FieldSet(c) THEN Raise(NoSuchField)
    ELSE LET field_value == value[2]
             loaded == IF FieldType(c, field_name) = "dict"
                       THEN JsonLoads(field_value) ELSE field_value
         IN  IF IsRaise(loaded) THEN loaded
             ELSE Construct(FieldType(c, field_name), loaded)

\* a _to_dataclass that skips the keys the class does not declare
to_dataclass_lenient(c, dynamodb_item) ==
    LET known == DOMAIN dynamodb_item \cap FieldSet(c)
        failing == {f \in known : IsRaise(ToDataclassEntry(c, f, dynamodb_item[f]))}
    IN  IF failing = {}
        THEN {Ok([f \in known |-> ToDataclassEntry(c, f, dynamodb_item[f])])}
        ELSE {Err(ToDataclassEntry(c, f, dynamodb_item[f])[2]) : f \in failing}

\* _to_dataclass raises at the first key of the item, in the item's own
\* order, whose turn raises; the order of a returned item's keys is the
\* storage service's, so any failing key may be that first one
to_dataclass(c, dynamodb_item) ==
    LET failing == {f \in DOMAIN dynamodb_item :
                      IsRaise(ToDataclassEntry(c, f, dynamodb_item[f]))}
    IN  IF failing = {}
        THEN {Ok([f \in DOMAIN dynamodb_item |-> ToDataclassEntry(c, f, dynamodb_item[f])])}
        ELSE {Err(ToDataclassEntry(c, f, dynamodb_item[f])[2]) : f \in failing}

\* cls(**kwargs): the dataclass __init__, whose fields have no defaults
NewInstance(c, kwargs) ==
    IF DOMAIN kwargs # FieldSet(c) THEN Err("TypeError") ELSE Ok(kwargs)

\* cls(**cls._to_dataclass(item))
FromItem(c, dynamodb_item) ==
    {IF k.ok THEN NewInstance(c, k.val) ELSE k : k \in to_dataclass(c, dynamodb_item)}

dataclass_field_to_dynamo_field(c, field_name, value) ==
    IF field_name \notin FieldSet(c) THEN Raise(NoSuchField)
    ELSE LET field_type == FieldType(c, field_name)
             coerced == Construct(field_type, value)
         IN  IF field_type \notin MappedTypes THEN Raise("KeyError")
             ELSE IF IsRaise(coerced) THEN coerced
             ELSE <<MappingKey(field_type), MappingFn(field_type, coerced)>>

\* record equality as the dataclass __eq__ computes it
RecordEq(r1, r2) ==
    /\ DOMAIN r1 = DOMAIN r2
    /\ \A f \in DOMAIN r1 : PyEq(r1[f], r2[f])

(***************************************************************************)
(* The storage client (boto3's DynamoDB client) as the code uses it: a     *)
(* table holds at most one item per value of its key attributes.  The key  *)
(* attributes of each table are fixed when the table is created, outside   *)
(* the program.                                                            *)
(***************************************************************************)
KeySchema(table) ==
    CASE table = "users" -> {"id"}
      [] table = "orders" -> {"customer", "ts"}
      [] table = "ledger" -> {"ts"}
      [] table = "docs" -> {"id"}

HashKey(table) ==
    CASE table = "users" -> "id"
      [] table = "orders" -> "customer"
      [] table = "ledger" -> "ts"
      [] table = "docs" -> "id"

\* secondary indexes, each on its table's own hash key
Indexes(table) == IF table = "users" THEN {"by_name"} ELSE {}

ItemKey(table, item) == [a \in KeySchema(table) |-> item[a]]

NoCall ==
    [api |-> "none", TableName |-> "", Item |-> <<>>, Key |-> <<>>,
     KeyConditionExpression |-> <<>>, ExpressionAttributeValues |-> <<>>,
     IndexName |-> <<>>]

NoResponse == [kind |-> "none", Item |-> <<>>, Items |-> <<>>]

ClientError == [kind |-> "error", Item |-> <<>>, Items |-> <<>>]

\* put_item is refused when the item lacks a key attribute of the table
put_item_response(TableName, Item) ==
    IF ~(KeySchema(TableName) \subseteq DOMAIN Item) THEN ClientError
    ELSE [kind |-> "ack", Item |-> <<>>, Items |-> <<>>]

\* the store after an acknowledged put_item: the item replaces the one
\* stored under its key, if any
put_item(st, TableName, Item) ==
    {e \in st : ~(e.table = TableName
                  /\ ItemKey(TableName, e.item) = ItemKey(TableName, Item))}
    \cup {[table |-> TableName, item |-> Item]}

get_item(st, TableName, Key) ==
    IF DOMAIN Key # KeySchema(TableName) THEN ClientError
    ELSE LET found == {e \in st : e.table = TableName /\ ItemKey(TableName, e.item) = Key}
         IN  IF found = {} THEN [kind |-> "get", Item |-> <<>>, Items |-> <<>>]
             ELSE [kind |-> "get", Item |-> <<(CHOOSE e \in found : TRUE).item>>,
                   Items |-> <<>>]

\* every order in which the client may return the items of a set
Orders(S) ==
    {q \in [1..Cardinality(S) -> S] : \A i, j \in 1..Cardinality(S) : q[i] = q[j] => i = j}

\* the responses the client may give to a query on one attribute
query(st, TableName, attr, val, IndexName) ==
    IF attr # HashKey(TableName) \/ (IndexName # <<>> /\ IndexName[1] \notin Indexes(TableName))
    THEN {ClientError}
    ELSE LET found == {e.item : e \in {x \in st : x.table = TableName
                                                  /\ attr \in DOMAIN x.item
                                                  /\ x.item[attr] = val}}
         IN  {[kind |-> "query", Item |-> <<>>, Items |-> q] : q \in Orders(found)}

(***************************************************************************)
(* The operations.  Each yields the set of outcomes it may have: the       *)
(* request made of the storage client (NoCall when none was made), the     *)
(* client's response, how the operation ended ("ok" or the exception) and  *)
(* the records it returned.                                                *)
(***************************************************************************)
Outcome(c, r, status, value) ==
    [call |-> c, response |-> r, status |-> status, value |-> value]

Failed(e) == Outcome(NoCall, NoResponse, e, <<>>)

\* a _process_class that checks the partition key name only
process_class_unchecked_sort(c, table_name, partition_key_name, sort_key_name) ==
    IF partition_key_name \notin FieldSet(c)
    THEN Err("Exception: Partition Key Name not found in class fields")
    ELSE Ok([table_name |-> table_name,
             partition_key_name |-> partition_key_name,
             sort_key_name |-> sort_key_name])

\* _process_class: the checks of the key names and the parameters recorded
process_class(c, table_name, partition_key_name, sort_key_name) ==
    IF partition_key_name \notin FieldSet(c)
    THEN Err("Exception: Partition Key Name not found in class fields")
    ELSE IF sort_key_name # None /\ sort_key_name \notin FieldSet(c)
    THEN Err("Exception: Sort Key Name not found in class fields")
    ELSE Ok([table_name |-> table_name,
             partition_key_name |-> partition_key_name,
             sort_key_name |-> sort_key_name])

\* a save that puts every class's items into one table
SaveCall_one_table(c, item) ==
    [NoCall EXCEPT !.api = "put_item", !.TableName = "ledger", !.Item = item]

\* the request save makes
SaveCall(c, item) ==
    [NoCall EXCEPT !.api = "put_item", !.TableName = params[c].table_name, !.Item = item]

\* a save that puts on condition that no item is stored under the key
save_conditional(c, self) ==
    LET item == to_dynamo(c, self)
    IN  IF ~item.ok THEN {Failed(item.err)}
        ELSE LET t == params[c].table_name
                 taken == KeySchema(t) \subseteq DOMAIN item.val
                          /\ \E e \in store : /\ e.table = t
                                              /\ ItemKey(t, e.item) = ItemKey(t, item.val)
                 resp == IF taken THEN ClientError ELSE put_item_response(t, item.val)
             IN  {Outcome(SaveCall(c, item.val), resp,
                          IF resp.kind = "error" THEN "ClientError" ELSE "ok", <<>>)}

save(c, self) ==
    LET item == to_dynamo(c, self)
    IN  IF ~item.ok THEN {Failed(item.err)}
        ELSE LET resp == put_item_response(params[c].table_name, item.val)
             IN  {Outcome(SaveCall(c, item.val), resp,
                          IF resp.kind = "error" THEN "ClientError" ELSE "ok", <<>>)}

\* a get that never adds the sort key entry
GetKey_partition_only(c, partition_key, sort_key) ==
    LET partition_key_name == params[c].partition_key_name
        pk == dataclass_field_to_dynamo_field(c, partition_key_name, partition_key)
    IN  IF IsRaise(pk) THEN Err(pk[2]) ELSE Ok([f \in {partition_key_name} |-> pk])

\* the key get builds before it calls the client
GetKey(c, partition_key, sort_key) ==
    LET partition_key_name == params[c].partition_key_name
        sort_key_name == params[c].sort_key_name
        pk == dataclass_field_to_dynamo_field(c, partition_key_name, partition_key)
        sk == dataclass_field_to_dynamo_field(c, sort_key_name, sort_key)
    IN  IF IsRaise(pk) THEN Err(pk[2])
        ELSE IF sort_key_name = None THEN Ok([f \in {partition_key_name} |-> pk])
        ELSE IF IsRaise(sk) THEN Err(sk[2])
        ELSE Ok([f \in {partition_key_name, sort_key_name} |->
                   IF f = sort_key_name THEN sk ELSE pk])

GetCall(c, key) ==
    [NoCall EXCEPT !.api = "get_item", !.TableName = params[c].table_name, !.Key = key]

\* a get without the test for a missing "Item": item["Item"] raises KeyError
get_unchecked(c, partition_key, sort_key) ==
    IF sort_key = Omitted THEN {Failed("TypeError")}
    ELSE LET key == GetKey(c, partition_key, sort_key)
         IN  IF ~key.ok THEN {Failed(key.err)}
             ELSE LET item == get_item(store, params[c].table_name, key.val)
                      rq == GetCall(c, key.val)
                  IN  IF item.kind = "error" THEN {Outcome(rq, item, "ClientError", <<>>)}
                      ELSE IF item.Item = <<>>
                      THEN {Outcome(rq, item, "KeyError", <<>>)}
                      ELSE {Outcome(rq, item, IF o.ok THEN "ok" ELSE o.err,
                                    IF o.ok THEN <<o.val>> ELSE <<>>) :
                              o \in FromItem(c, item.Item[1])}

\* sort_key is a keyword argument without a default: a call without it
\* raises TypeError before the body runs
get(c, partition_key, sort_key) ==
    IF sort_key = Omitted THEN {Failed("TypeError")}
    ELSE LET key == GetKey(c, partition_key, sort_key)
         IN  IF ~key.ok THEN {Failed(key.err)}
             ELSE LET item == get_item(store, params[c].table_name, key.val)
                      rq == GetCall(c, key.val)
                  IN  IF item.kind = "error" THEN {Outcome(rq, item, "ClientError", <<>>)}
                      ELSE IF item.Item = <<>>
                      THEN {Outcome(rq, item, "ItemNotFoundError", <<>>)}
                      ELSE {Outcome(rq, item, IF o.ok THEN "ok" ELSE o.err,
                                    IF o.ok THEN <<o.val>> ELSE <<>>) :
                              o \in FromItem(c, item.Item[1])}

\* the value query binds to ":val"
QueryValue(c, partition_key) ==
    LET partition_key_name == params[c].partition_key_name
        partition_key_type == MappingKey(FieldType(c, partition_key_name))
    IN  <<partition_key_type, PyStr(partition_key)>>

QueryCall(c, partition_key, index) ==
    [NoCall EXCEPT !.api = "query", !.TableName = params[c].table_name,
                   !.KeyConditionExpression = <<params[c].partition_key_name, "=", ":val">>,
                   !.ExpressionAttributeValues = [n \in {":val"} |-> QueryValue(c, partition_key)],
                   !.IndexName = IF index \in {None, ""} THEN <<>> ELSE <<index>>]

\* a rendering that builds the list back to front
RECURSIVE Render_reversed(_, _)
Render_reversed(c, items) ==
    IF items = <<>> THEN {Ok(<<>>)}
    ELSE LET rest == Render_reversed(c, Tail(items))
         IN  UNION {IF ~o.ok THEN {o}
                    ELSE {IF t.ok THEN Ok(t.val \o <<o.val>>) ELSE t : t \in rest} :
                      o \in FromItem(c, Head(items))}

\* the list comprehension over items["Items"]: the records so far, or the
\* exception of the first item that cannot be rendered
RECURSIVE Render(_, _)
Render(c, items) ==
    IF items = <<>> THEN {Ok(<<>>)}
    ELSE LET rest == Render(c, Tail(items))
         IN  UNION {IF ~o.ok THEN {o}
                    ELSE {IF t.ok THEN Ok(<<o.val>> \o t.val) ELSE t : t \in rest} :
                      o \in FromItem(c, Head(items))}

query_(c, partition_key, index) ==
    LET rq == QueryCall(c, partition_key, index)
    IN  UNION {IF items.kind = "error" THEN {Outcome(rq, items, "ClientError", <<>>)}
               ELSE {Outcome(rq, items, IF o.ok THEN "ok" ELSE o.err, o.val) :
                       o \in Render(c, items.Items)} :
                 items \in query(store, rq.TableName, rq.KeyConditionExpression[1],
                                 rq.ExpressionAttributeValues[":val"], rq.IndexName)}

(***************************************************************************)
(* State: params is each class's __dynamoclass_params__ (NoParams before   *)
(* the class is decorated), store the items the storage service holds,     *)
(* call / response the last exchange with the storage client, result the   *)
(* last operation with its arguments and how it ended.  lastSaved records, *)
(* per table and key, the class and record of the latest save that handed  *)
(* an item to the storage client.                                          *)
(***************************************************************************)
NoArgs ==
    [rec |-> <<>>, partition_key |-> Omitted, sort_key |-> Omitted, index |-> None,
     field_name |-> "", declaration |-> <<>>]

Result(op, c, args, status, value) ==
    [op |-> op, cls |-> c, args |-> args, status |-> status, value |-> value]

Init ==
    /\ params = [c \in Classes |-> NoParams]
    /\ store = {}
    /\ call = NoCall
    /\ response = NoResponse
    /\ result = Result("none", "", NoArgs, "", <<>>)
    /\ lastSaved = {}

\* the decorator applied to class c; a class statement runs once
Register(c, d) ==
    /\ ~Registered(c)
    /\ LET p == process_class(c, d[1], d[2], d[3])
       IN  /\ params' = IF p.ok THEN [params EXCEPT ![c] = p.val] ELSE params
           /\ result' = Result("dynamoclass", c, [NoArgs EXCEPT !.declaration = d],
                               IF p.ok THEN "ok" ELSE p.err, <<>>)
    /\ call' = NoCall
    /\ response' = NoResponse
    /\ UNCHANGED <<store, lastSaved>>

Observe(op, c, args, o) ==
    /\ call' = o.call
    /\ response' = o.response
    /\ result' = Result(op, c, args, o.status, o.value)

Save(c, self) ==
    /\ Registered(c)
    /\ \E o \in save(c, self) :
         /\ Observe("save", c, [NoArgs EXCEPT !.rec = <<self>>], o)
         /\ store' = IF o.response.kind = "ack"
                     THEN put_item(store, o.call.TableName, o.call.Item) ELSE store
         /\ lastSaved' =
              IF o.call.api = "put_item" /\ KeySchema(o.call.TableName) \subseteq DOMAIN o.call.Item
              THEN LET t == o.call.TableName
                       k == ItemKey(t, o.call.Item)
                   IN  {e \in lastSaved : ~(e.table = t /\ e.key = k)}
                       \cup {[table |-> t, key |-> k, cls |-> c, rec |-> self]}
              ELSE lastSaved
    /\ Cardinality(store') <= MaxItems
    /\ UNCHANGED params

Get(c, partition_key, sort_key) ==
    /\ Registered(c)
    /\ \E o \in get(c, partition_key, sort_key) :
         Observe("get", c, [NoArgs EXCEPT !.partition_key = partition_key,
                                          !.sort_key = sort_key], o)
    /\ UNCHANGED <<params, store, lastSaved>>

Query(c, partition_key, index) ==
    /\ Registered(c)
    /\ \E o \in query_(c, partition_key, index) :
         Observe("query", c, [NoArgs EXCEPT !.partition_key = partition_key,
                                            !.index = index], o)
    /\ UNCHANGED <<params, store, lastSaved>>

\* _dataclass_field_to_dynamo_field called on the class directly
FieldToDynamo(c, field_name, value) ==
    /\ Registered(c)
    /\ LET w == dataclass_field_to_dynamo_field(c, field_name, value)
       IN  Observe("field_to_dynamo", c,
                   [NoArgs EXCEPT !.field_name = field_name, !.partition_key = value],
                   IF IsRaise(w) THEN Failed(w[2])
                   ELSE Outcome(NoCall, NoResponse, "ok", <<[f \in {field_name} |-> w]>>))
    /\ UNCHANGED <<params, store, lastSaved>>

Next ==
    \/ \E c \in ServiceClasses : \E d \in Declarations(c) : Register(c, d)
    \/ \E c \in ServiceClasses : \E self \in Instances(c) : Save(c, self)
    \/ \E c \in ServiceClasses : \E pk \in PartitionArgs(c) : \E sk \in SortArgs(c) :
         Get(c, pk, sk)
    \/ \E c \in ServiceClasses : \E pk \in PartitionArgs(c) : \E i \in IndexArgs :
         Query(c, pk, i)
    \/ \E c \in ServiceClasses : \E f \in FieldNameArgs(c) : \E v \in FieldValueArgs(c) :
         FieldToDynamo(c, f, v)

Spec == Init /\ [][Next]_vars

(***************************************************************************)
(* The marshalling on its own: _to_dynamo applied to an instance, then     *)
(* _to_dataclass applied to the item it produced.  Every class is          *)
(* decorated with a declaration that _process_class accepts.               *)
(***************************************************************************)
Accepted(c) ==
    CHOOSE d \in Declarations(c) : process_class(c, d[1], d[2], d[3]).ok

CodecInit ==
    /\ params = [c \in Classes |->
                   process_class(c, Accepted(c)[1], Accepted(c)[2], Accepted(c)[3]).val]
    /\ store = {}
    /\ call = NoCall
    /\ response = NoResponse
    /\ result = Result("none", "", NoArgs, "", <<>>)
    /\ lastSaved = {}

ToDynamo(c, self) ==
    /\ LET item == to_dynamo(c, self)
       IN  result' = Result("to_dynamo", c, [NoArgs EXCEPT !.rec = <<self>>],
                            IF item.ok THEN "ok" ELSE item.err,
                            IF item.ok THEN <<item.val>> ELSE <<>>)
    /\ UNCHANGED <<params, store, call, response, lastSaved>>

ToDataclass ==
    /\ result.op = "to_dynamo"
    /\ result.status = "ok"
    /\ \E kwargs \in to_dataclass(result.cls, result.value[1]) :
         result' = Result("to_dataclass", result.cls, result.args,
                          IF kwargs.ok THEN "ok" ELSE kwargs.err,
                          IF kwargs.ok THEN <<kwargs.val>> ELSE <<>>)
    /\ UNCHANGED <<params, store, call, response, lastSaved>>

CodecNext ==
    \/ \E c \in Classes : \E self \in Instances(c) : ToDynamo(c, self)
    \/ ToDataclass

CodecSpec == CodecInit /\ [][CodecNext]_vars

(***************************************************************************)
(* Properties.                                                             *)
(***************************************************************************)
Pkn(c) == params[c].partition_key_name

Skn(c) == params[c].sort_key_name

\* the items the store holds in table t under key k
Stored(t, k) == {e \in store : e.table = t /\ ItemKey(t, e.item) = k}

\* every field of c is declared str and holds a str in r
AllStrings(c, r) == \A f \in FieldSet(c) : FieldType(c, f) = "str" /\ r[f][1] = "str"

\* the last get was called with the key of the saved record e.rec
GetOfSaved(e) ==
    /\ result.op = "get"
    /\ e.cls = result.cls
    /\ e.table = params[e.cls].table_name
    /\ AllStrings(e.cls, e.rec)
    /\ result.args.sort_key # Omitted
    /\ result.args.partition_key = e.rec[Pkn(e.cls)]
    /\ Skn(e.cls) # None => result.args.sort_key = e.rec[Skn(e.cls)]

RoundTripTypes == {"str", "int", "float", "bool", "None"}

HasType(type, v) == IF type = "None" THEN v = PyNone ELSE v[1] = type

WellTyped(c, r) ==
    \A f \in FieldSet(c) : FieldType(c, f) \in RoundTripTypes /\ HasType(FieldType(c, f), r[f])

\* C3: for a record whose fields have declared types among str, int, float,
\* bool and None and hold values of those types, _to_dynamo succeeds and
\* _to_dataclass of its item yields field values equal to the record's.
C3_RoundTrip ==
    (result.op \in {"to_dynamo", "to_dataclass"}
     /\ WellTyped(result.cls, result.args.rec[1]))
      => /\ result.status = "ok"
         /\ result.op = "to_dataclass" => RecordEq(result.value[1], result.args.rec[1])

KeyNamesDeclared(c) ==
    /\ Pkn(c) \in FieldSet(c)
    /\ Skn(c) # None => Skn(c) \in FieldSet(c)

\* the last operation was the decorator, given a key name that is no field
BadDeclaration ==
    /\ result.op = "dynamoclass"
    /\ \/ result.args.declaration[2] \notin FieldSet(result.cls)
       \/ /\ result.args.declaration[3] # None
          /\ result.args.declaration[3] \notin FieldSet(result.cls)

\* C4: decorating a class fails when partition_key_name is no field of it,
\* or sort_key_name is given and is no field of it; so the key names of
\* every decorated class are fields of it, and no later operation changes
\* the recorded table name or key names.
C4_KeyNames ==
    /\ [](/\ \A c \in Classes : Registered(c) => KeyNamesDeclared(c)
          /\ BadDeclaration => (result.status # "ok" /\ ~Registered(result.cls)))
    /\ [][\A c \in Classes : Registered(c) => params'[c] = params[c]]_vars

C4_Witness ==
    /\ result.op \in {"save", "get", "query"}
    /\ result.status = "ok"
    /\ Skn(result.cls) # None

\* C5 as claimed: the key get sends always holds the partition key entry
\* built from partition_key, holds a sort key entry exactly when a sort key
\* is declared, and has one entry when none is.
C5_Original ==
    (result.op = "get" /\ call.api = "get_item") =>
      LET c == result.cls
      IN  /\ Pkn(c) \in DOMAIN call.Key
          /\ call.Key[Pkn(c)] =
               dataclass_field_to_dynamo_field(c, Pkn(c), result.args.partition_key)
          /\ Skn(c) # None <=> Skn(c) \in DOMAIN call.Key
          /\ Skn(c) = None => DOMAIN call.Key = {Pkn(c)}

\* C5, amended: the partition key entry is built from partition_key when
\* the declared sort key, if any, is another field than the partition key;
\* the key holds a sort key entry, built from sort_key, exactly when a sort
\* key is declared; with none declared the key is the partition key entry
\* alone and the lookup does not depend on sort_key.
C5_GetKey ==
    (result.op = "get" /\ call.api = "get_item") =>
      LET c == result.cls
          pk == dataclass_field_to_dynamo_field(c, Pkn(c), result.args.partition_key)
      IN  /\ Pkn(c) \in DOMAIN call.Key
          /\ Skn(c) # Pkn(c) => call.Key[Pkn(c)] = pk
          /\ Skn(c) # None <=> Skn(c) \in DOMAIN call.Key
          /\ Skn(c) # None =>
               /\ DOMAIN call.Key = {Pkn(c), Skn(c)}
               /\ call.Key[Skn(c)] =
                    dataclass_field_to_dynamo_field(c, Skn(c), result.args.sort_key)
          /\ Skn(c) = None =>
               /\ call.Key = [f \in {Pkn(c)} |-> pk]
               /\ response = get_item(store, params[c].table_name, [f \in {Pkn(c)} |-> pk])

C5_Witness ==
    /\ result.op = "get"
    /\ call.api = "get_item"
    /\ Cardinality(DOMAIN call.Key) = 2
    /\ result.status = "ok"

\* C6: the value query binds to ":val" is the partition key entry get
\* builds for the same value: the value coerced to the declared type of the
\* partition key field, encoded by that type's function under its tag.
C6_QueryValue ==
    result.op = "query" =>
      call.ExpressionAttributeValues[":val"] =
        dataclass_field_to_dynamo_field(result.cls, Pkn(result.cls),
                                        result.args.partition_key)

\* C7: query constrains the partition key alone; when it returns, it
\* returns one record per item of the client's response, the i-th rendered
\* from the i-th item; an empty response gives the empty list, not an error.
C7_Query ==
    result.op = "query" =>
      /\ call.api = "query"
      /\ call.KeyConditionExpression = <<Pkn(result.cls), "=", ":val">>
      /\ DOMAIN call.ExpressionAttributeValues = {":val"}
      /\ result.status = "ok" =>
           /\ response.kind = "query"
           /\ Len(result.value) = Len(response.Items)
           /\ \A i \in 1..Len(response.Items) :
                Ok(result.value[i]) \in FromItem(result.cls, response.Items[i])
      /\ (response.kind = "query" /\ response.Items = <<>>) =>
           (result.status = "ok" /\ result.value = <<>>)

C7_Witness ==
    /\ result.op = "query"
    /\ result.status = "ok"
    /\ Len(result.value) = 2
    /\ Skn(result.cls) # None

\* the item has a key that is no field of class c
Undeclared(c, item) == DOMAIN item \ FieldSet(c) # {}

\* every declared key of the item is rendered without an exception
Clean(c, item) ==
    \A f \in DOMAIN item \cap FieldSet(c) : ~IsRaise(ToDataclassEntry(c, f, item[f]))

\* the direct call of _dataclass_field_to_dynamo_field with a name that is
\* no field fails with the no-such-field error, and the client is not called
UnknownNameRefused ==
    (result.op = "field_to_dynamo" /\ result.args.field_name \notin FieldSet(result.cls))
      => (result.status = NoSuchField /\ result.value = <<>> /\ call.api = "none")

\* C8 as claimed: an item with a key that is no declared field makes get,
\* and query as a whole, fail with the no-such-field error.
C8_Original ==
    /\ (result.op = "get" /\ response.Item # <<>>
        /\ Undeclared(result.cls, response.Item[1]))
         => (result.status = NoSuchField /\ result.value = <<>>)
    /\ (result.op = "query"
        /\ \E i \in 1..Len(response.Items) : Undeclared(result.cls, response.Items[i]))
         => (result.status = NoSuchField /\ result.value = <<>>)
    /\ UnknownNameRefused

\* C8, amended: such an item makes get, and query as a whole, fail and
\* return no record; the exception is the no-such-field error when nothing
\* rendered before the undeclared key can raise, that is when the declared
\* keys of the item, and for query the items returned before it, render
\* without an exception.
C8_UnknownField ==
    /\ (result.op = "get" /\ response.Item # <<>>
        /\ Undeclared(result.cls, response.Item[1]))
         => /\ result.status # "ok"
            /\ result.value = <<>>
            /\ Clean(result.cls, response.Item[1]) => result.status = NoSuchField
    /\ \A i \in 1..Len(response.Items) :
         (/\ result.op = "query"
          /\ Undeclared(result.cls, response.Items[i])
          /\ \A j \in 1..(i - 1) : ~Undeclared(result.cls, response.Items[j]))
           => /\ result.status # "ok"
              /\ result.value = <<>>
              /\ (/\ Clean(result.cls, response.Items[i])
                  /\ \A j \in 1..(i - 1) :
                       /\ Clean(result.cls, response.Items[j])
                       /\ DOMAIN response.Items[j] = FieldSet(result.cls))
                   => result.status = NoSuchField
    /\ UnknownNameRefused

C8_Witness ==
    /\ result.op = "query"
    /\ Len(response.Items) = 2
    /\ Undeclared(result.cls, response.Items[2])
    /\ result.status = NoSuchField

\* C9: the item save hands to the client has the declared field names as
\* keys, each entry tagged with the wire key of the field's declared type
\* and holding that type's encoding of the field's value, whatever the
\* runtime type of the value.
C9_Original ==
    (result.op = "save" /\ call.api = "put_item") =>
      LET c == result.cls
          self == result.args.rec[1]
      IN  /\ DOMAIN call.Item = FieldSet(c)
          /\ \A f \in FieldSet(c) :
               call.Item[f] = <<MappingKey(FieldType(c, f)),
                                MappingFn(FieldType(c, f), self[f])>>

\* the items by which two stores differ
Changed(s, t) == (s \ t) \cup (t \ s)

\* C10: the store changes only in a save that succeeds, and only under the
\* table and key of the record saved; a save that fails in encoding makes
\* no request of the client and leaves the store as it was; get and query
\* never put and leave the store as it was.
C10_Frame ==
    [][/\ store' # store =>
            /\ result'.op = "save"
            /\ result'.status = "ok"
            /\ to_dynamo(result'.cls, result'.args.rec[1]).ok
            /\ LET t == params[result'.cls].table_name
                   k == ItemKey(t, to_dynamo(result'.cls, result'.args.rec[1]).val)
               IN  \A e \in Changed(store, store') :
                     e.table = t /\ ItemKey(t, e.item) = k
       /\ (result'.op = "save" /\ ~to_dynamo(result'.cls, result'.args.rec[1]).ok) =>
            (result'.status # "ok" /\ call'.api = "none" /\ store' = store)
       /\ result'.op \in {"get", "query"} => (call'.api # "put_item" /\ store' = store)
      ]_vars

C10_Witness ==
    /\ result.op = "save"
    /\ result.status = "KeyError"
    /\ store # {}

====
